---- MODULE Spec2Model ----
(***************************************************************************)
(* A model of src/main.rs: the VecMap random-removal set and the           *)
(* generation loop of make_image (seeding, nearest-colour selection,       *)
(* boundary walk, commit and random fallback).                             *)
(*                                                                         *)
(* Coordinates are 0-based as in the source.  A Location is a pair         *)
(* <<x, y>>; a Vec is a sequence whose source index k is position k + 1;   *)
(* an Option is a sequence of length at most one.  The random generator    *)
(* is modelled by nondeterministic choice over the range of each draw.     *)
(* The two spreads are rationals <<numerator, denominator>>.               *)
(***************************************************************************)
EXTENDS Integers, Sequences, FiniteSets, TLC

\* ---------------------------------------------------------------- bounds
MaxSize == 2
MaxLookback == 2
MaxElems == 4
MaxWalkSize == 4
MaxHoles == 1

\* Inputs the model enumerates.
Colors == {<<0, 0, 0>>, <<2, 0, 0>>}
StartSpreads == {<<0, 1>>, <<1, 2>>}
ContSpreads == {<<0, 1>>, <<1, 1>>}
Elems == 1..MaxElems

\* ---------------------------------------------------------------- helpers
None == <<>>
Some(x) == <<x>>

Min(a, b) == IF a <= b THEN a ELSE b
Max(a, b) == IF a >= b THEN a ELSE b
Abs(a) == IF a >= 0 THEN a ELSE -a
saturating_sub(a, b) == IF a >= b THEN a - b ELSE 0

Range(s) == {s[k] : k \in 1..Len(s)}

\* A scan that keeps the last minimal item instead of the first.
min_by_key_last(keys) ==
    CHOOSE a \in 1..Len(keys) :
        /\ \A b \in 1..Len(keys) : keys[a] <= keys[b]
        /\ \A b \in (a + 1)..Len(keys) : keys[b] > keys[a]

\* Iterator::min_by_key on the keys of the items in order: the position of
\* the first item whose key is minimal.
min_by_key(keys) ==
    CHOOSE a \in 1..Len(keys) :
        /\ \A b \in 1..Len(keys) : keys[a] <= keys[b]
        /\ \A b \in 1..(a - 1) : keys[b] > keys[a]

\* ---------------------------------------------------------------- VecMap
MapRemove(map, key) == [k \in DOMAIN map \ {key} |-> map[k]]
MapInsert(map, key, val) ==
    [k \in DOMAIN map \cup {key} |-> IF k = key THEN val ELSE map[k]]

\* HashMap collected from (v, i) pairs in order: a later pair overwrites.
new_from_vec(vec) ==
    [vec |-> vec,
     map |-> [v \in Range(vec) |->
                 CHOOSE k \in 0..(Len(vec) - 1) :
                     /\ vec[k + 1] = v
                     /\ \A m \in 0..(Len(vec) - 1) : vec[m + 1] = v => m <= k]]

\* swap_remove that pops the last element without moving it into the slot.
swap_remove_pop_only(vec, index) == SubSeq(vec, 1, Len(vec) - 1)

\* swap_remove that overwrites the slot but forgets to pop the last element.
swap_remove_no_pop(vec, index) ==
    [vec EXCEPT ![index + 1] = vec[Len(vec)]]

\* Vec::swap_remove(index), index < len: the last element takes the place.
swap_remove(vec, index) ==
    LET n == Len(vec)
    IN  IF index + 1 = n THEN SubSeq(vec, 1, n - 1)
        ELSE SubSeq(vec, 1, index) \o <<vec[n]>> \o SubSeq(vec, index + 2, n - 1)

\* remove_random that forgets to re-index the element moved into the slot.
remove_random_no_reindex(vm, index) ==
    IF vm.vec = <<>> THEN [vm |-> vm, out |-> None]
    ELSE LET out == vm.vec[index + 1]
         IN  [vm |-> [vec |-> swap_remove(vm.vec, index),
                      map |-> MapRemove(vm.map, out)],
              out |-> Some(out)]

\* remove_random with the drawn index; out is the Option returned.
remove_random(vm, index) ==
    IF vm.vec = <<>> THEN [vm |-> vm, out |-> None]
    ELSE LET lastv == vm.vec[Len(vm.vec)]
             out == vm.vec[index + 1]
             vec1 == swap_remove(vm.vec, index)
             map1 == MapRemove(vm.map, out)
             map2 == IF index # Len(vec1) THEN MapInsert(map1, lastv, index)
                     ELSE map1
         IN  [vm |-> [vec |-> vec1, map |-> map2], out |-> Some(out)]

\* remove that reads the reverse index (get) instead of taking the entry out.
remove_keep_entry(vm, item) ==
    IF item \in DOMAIN vm.map
    THEN LET index == vm.map[item]
         IN  IF vm.vec = <<>> \/ index >= Len(vm.vec)
             THEN [vm |-> vm, out |-> FALSE, panic |-> TRUE]
             ELSE LET lastv == vm.vec[Len(vm.vec)]
                      vec1 == swap_remove(vm.vec, index)
                      map2 == IF index # Len(vec1)
                              THEN MapInsert(vm.map, lastv, index) ELSE vm.map
                  IN  [vm |-> [vec |-> vec1, map |-> map2], out |-> TRUE,
                       panic |-> FALSE]
    ELSE [vm |-> vm, out |-> FALSE, panic |-> FALSE]

\* remove that drops the reverse-index entry but leaves vec as it was.
remove_map_only(vm, item) ==
    IF item \in DOMAIN vm.map
    THEN [vm |-> [vec |-> vm.vec, map |-> MapRemove(vm.map, item)],
          out |-> TRUE, panic |-> FALSE]
    ELSE [vm |-> vm, out |-> FALSE, panic |-> FALSE]

\* remove(item); out is the bool returned, panic is set when unwrap() or
\* swap_remove would fault.
remove(vm, item) ==
    IF item \in DOMAIN vm.map
    THEN LET index == vm.map[item]
             map1 == MapRemove(vm.map, item)
         IN  IF vm.vec = <<>> \/ index >= Len(vm.vec)
             THEN [vm |-> [vec |-> vm.vec, map |-> map1], out |-> FALSE,
                   panic |-> TRUE]
             ELSE LET lastv == vm.vec[Len(vm.vec)]
                      vec1 == swap_remove(vm.vec, index)
                      map2 == IF index # Len(vec1)
                              THEN MapInsert(map1, lastv, index) ELSE map1
                  IN  [vm |-> [vec |-> vec1, map |-> map2], out |-> TRUE,
                       panic |-> FALSE]
    ELSE [vm |-> vm, out |-> FALSE, panic |-> FALSE]

\* ------------------------------------------------------- placement maths
Locs(n) == (0..(n - 1)) \X (0..(n - 1))

\* (0..size).flat_map(|i| (0..size).map(|j| [i, j])): row-major order.
AllLocs(n) == [k \in 1..(n * n) |-> <<(k - 1) \div n, (k - 1) % n>>]

\* A loop that stops one iteration early, and one that runs one too many.
NumIterationsShort(n) == n * n - 1
NumIterationsLong(n) == n * n + 1

\* Number of iterations of the generation loop.
NumIterations(n) == n * n

\* Sum of squared per-channel differences of two colours.
color_dist_sq(c, pc) ==
    (c[1] - pc[1]) * (c[1] - pc[1]) + (c[2] - pc[2]) * (c[2] - pc[2])
        + (c[3] - pc[3]) * (c[3] - pc[3])

\* A selection that takes the oldest of the equally near pixels.
nearest_oldest(lb, c) ==
    lb[min_by_key_last([k \in 1..Len(lb) |-> color_dist_sq(c, lb[k].color)])]

\* lookback.iter().min_by_key(colour distance): first minimum from the front.
Nearest(lb, c) ==
    lb[min_by_key([k \in 1..Len(lb) |-> color_dist_sq(c, lb[k].color)])]

\* Squared distance of a signed point to a centre (exact in f64 here).
dist(loc, center) ==
    (loc[1] - center[1]) * (loc[1] - center[1])
        + (loc[2] - center[2]) * (loc[2] - center[2])

\* The eight Moore neighbours in the order the source lists them.
neighbors(c) ==
    << <<c[1] + 1, c[2] + 1>>, <<c[1], c[2] + 1>>, <<c[1] - 1, c[2] + 1>>,
       <<c[1] + 1, c[2]>>, <<c[1] - 1, c[2]>>,
       <<c[1] + 1, c[2] - 1>>, <<c[1], c[2] - 1>>, <<c[1] - 1, c[2] - 1>> >>

\* The neighbours left after filter(|&n| n != last).
candidates(c, l) ==
    LET Keep(n) == n # l
    IN  SelectSeq(neighbors(c), Keep)

\* min_by_key(|&n| n64((dist(n) - radius).abs())) over the candidates.
select_next(c, l, center, r) ==
    LET cs == candidates(c, l)
    IN  cs[min_by_key([k \in 1..Len(cs) |-> Abs(dist(cs[k], center) - r)])]

\* The abort test without the comparison with start.
walk_abort_no_start(nxt, st, n, jj, r) ==
    \/ nxt[1] < 0
    \/ nxt[1] >= n
    \/ nxt[2] < 0
    \/ nxt[2] >= n
    \/ jj > 8 * r

\* The abort test with a valve that opens one step late.
walk_abort_late_valve(nxt, st, n, jj, r) ==
    \/ nxt = st
    \/ nxt[1] < 0
    \/ nxt[1] >= n
    \/ nxt[2] < 0
    \/ nxt[2] >= n
    \/ jj > 8 * r + 1

\* The abort test without the upper bound on the first axis.
walk_abort_no_upper(nxt, st, n, jj, r) ==
    \/ nxt = st
    \/ nxt[1] < 0
    \/ nxt[2] < 0
    \/ nxt[2] >= n
    \/ jj > 8 * r

\* The abort test without the step-count valve.
walk_abort_no_valve(nxt, st, n, jj, r) ==
    \/ nxt = st
    \/ nxt[1] < 0
    \/ nxt[1] >= n
    \/ nxt[2] < 0
    \/ nxt[2] >= n

\* The abort test of the walk.
walk_abort(nxt, st, n, jj, r) ==
    \/ nxt = st
    \/ nxt[1] < 0
    \/ nxt[1] >= n
    \/ nxt[2] < 0
    \/ nxt[2] >= n
    \/ jj > 8 * r

\* A walk that commits without looking at the cell.
is_none_unchecked(g, loc) == TRUE

\* grid[next].is_none()
is_none(g, loc) == g[loc] = None

\* A width that is rounded away from zero instead of truncated.
start_width_round_up(n, sp) == (n * sp[1]) \div sp[2] + 1

\* (size as f64 * start_spread) as usize, start_spread = sp[1] / sp[2].
start_width(n, sp) == (n * sp[1]) \div sp[2]

\* floor(sqrt(d) * sp[1] / sp[2]): the largest w with (w * sp[2])^2 <= d * sp[1]^2.
floor_sqrt_scaled(d, sp) ==
    CHOOSE w \in 0..(d * sp[1]) :
        /\ (w * sp[2]) * (w * sp[2]) <= d * sp[1] * sp[1]
        /\ ((w + 1) * sp[2]) * ((w + 1) * sp[2]) > d * sp[1] * sp[1]

\* (((color_dist_sq as f64).sqrt() * cont_spread) as usize).max(1)
cont_width(c, pc, sp) == Max(floor_sqrt_scaled(color_dist_sq(c, pc), sp), 1)

\* The inclusive sampling range of one centre axis, clamped above at hi.
center_range(c, width, hi) == saturating_sub(c, width)..Min(c + width, hi)

\* A buffer that grows at the back.
push_back(lb, pixel) == lb \o <<pixel>>

push_front(lb, pixel) == <<pixel>> \o lb
truncate(lb, n) == IF Len(lb) > n THEN SubSeq(lb, 1, n) ELSE lb

\* ---------------------------------------------------------------- state
VARIABLES
    size, num_centers, num_lookback, start_spread, cont_spread,  \* arguments
    grid, lookback, open_locs,                                   \* make_image
    i, color,                                                    \* the loop
    nearest, start, last, cur, radius, j,                        \* the walk
    pc,          \* "loop" | "walk" | "done" | "panic" | "idle"
    panic,       \* "none" or the message of the expectation that failed
    path,        \* how the latest placement was made
    created,     \* every Pixel constructed so far
    img,         \* the image built after the loop; None before that
    vm, vm_out,  \* a VecMap on its own and the result of its last call
    vm_removed   \* the elements removed from vm so far

args == <<size, num_centers, num_lookback, start_spread, cont_spread>>
walk == <<nearest, start, last, cur, radius>>
mvars == <<args, grid, lookback, open_locs, i, color, walk, j, pc, panic,
           path, created, img>>
tvars == <<vm, vm_out, vm_removed>>
vars == <<mvars, tvars>>

Filled == {c \in DOMAIN grid : grid[c] # None}
NoPixel == [color |-> <<0, 0, 0>>, loc |-> <<0, 0>>, center |-> <<0, 0>>]
EmptyVM == new_from_vec(<<>>)

\* ---------------------------------------------------------------- Init
\* The state of make_image when the loop is entered.
InitMain ==
    /\ size \in 1..MaxSize
    /\ num_centers \in 0..(size * size)
    /\ num_lookback \in 1..MaxLookback
    /\ start_spread \in StartSpreads
    /\ cont_spread \in ContSpreads
    /\ grid = [c \in Locs(size) |-> None]
    /\ lookback = <<>>
    /\ open_locs = new_from_vec(AllLocs(size))
    /\ i = 0
    /\ color = <<0, 0, 0>>
    /\ nearest = NoPixel
    /\ start = <<0, 0>>
    /\ last = <<0, 0>>
    /\ cur = <<0, 0>>
    /\ radius = 0
    /\ j = 0
    /\ pc = "loop"
    /\ panic = "none"
    /\ path = "none"
    /\ created = {}
    /\ img = None

Init == InitMain /\ vm = EmptyVM /\ vm_out = None /\ vm_removed = {}

\* ---------------------------------------------------------------- actions
\* The insert_random closure with the colour of the iteration; it ends the
\* iteration.  how names the caller for the path variable.
insert_random(c, how) ==
    IF open_locs.vec = <<>>
    THEN /\ panic' = "nonempty"
         /\ pc' = "panic"
         /\ UNCHANGED <<open_locs, grid, lookback, i, path, created>>
    ELSE \E index \in 0..(Len(open_locs.vec) - 1) :
            LET r == remove_random(open_locs, index)
                loc == r.out[1]
                width == start_width(size, start_spread)
            IN  \E cx \in center_range(loc[1], width, size - 1),
                   cy \in center_range(loc[2], width, size - 1) :
                    LET pixel == [color |-> c, loc |-> loc, center |-> <<cx, cy>>]
                    IN  /\ open_locs' = r.vm
                        /\ grid' = [grid EXCEPT ![loc] = Some(pixel)]
                        /\ lookback' = truncate(push_front(lookback, pixel),
                                                num_lookback)
                        /\ created' = created \cup {pixel}
                        /\ path' = how
                        /\ i' = i + 1
                        /\ pc' = "loop"
                        /\ panic' = panic

\* One iteration of the seeding phase (i < num_centers).
SeedIter ==
    /\ pc = "loop"
    /\ i < NumIterations(size)
    /\ i < num_centers
    /\ \E c \in Colors :
          /\ color' = c
          /\ insert_random(c, "seed")
    /\ UNCHANGED <<args, walk, j, img, tvars>>

\* The head of a growth iteration: draw the colour, select nearest, set up
\* the walk.
GrowthStart ==
    /\ pc = "loop"
    /\ i < NumIterations(size)
    /\ ~(i < num_centers)
    /\ \E c \in Colors :
          /\ color' = c
          /\ IF lookback = <<>>
             THEN /\ panic' = "find one"
                  /\ pc' = "panic"
                  /\ UNCHANGED <<walk, j>>
             ELSE LET n == Nearest(lookback, c)
                  IN  /\ nearest' = n
                      /\ start' = n.loc
                      /\ last' = n.loc
                      /\ cur' = n.loc
                      /\ radius' = dist(n.loc, n.center)
                      /\ j' = 0
                      /\ pc' = "walk"
                      /\ panic' = panic
    /\ UNCHANGED <<args, grid, lookback, open_locs, i, path, created, img,
                   tvars>>

\* The commit of a walk step at an unfilled neighbour.
Commit(nxt) ==
    LET width == cont_width(color, nearest.color, cont_spread)
        xs == center_range(nearest.center[1], width, size)
        ys == center_range(nearest.center[2], width, size)
    IN  IF xs = {} \/ ys = {}
        THEN /\ panic' = "empty range"
             /\ pc' = "panic"
             /\ UNCHANGED <<open_locs, grid, lookback, i, path, created>>
        ELSE \E cx \in xs, cy \in ys :
                LET pixel == [color |-> color, loc |-> nxt, center |-> <<cx, cy>>]
                IN  /\ grid' = [grid EXCEPT ![nxt] = Some(pixel)]
                    /\ open_locs' = remove(open_locs, nxt).vm
                    /\ lookback' = truncate(push_front(lookback, pixel),
                                            num_lookback)
                    /\ created' = created \cup {pixel}
                    /\ path' = "commit"
                    /\ i' = i + 1
                    /\ IF remove(open_locs, nxt).panic
                       THEN pc' = "panic" /\ panic' = "unwrap"
                       ELSE pc' = "loop" /\ panic' = panic

\* One pass of the walk loop.
WalkStep ==
    /\ pc = "walk"
    /\ j' = j + 1
    /\ IF candidates(cur, last) = <<>>
       THEN /\ panic' = "Still one left"
            /\ pc' = "panic"
            /\ UNCHANGED <<open_locs, grid, lookback, i, path, created, walk>>
       ELSE LET nxt == select_next(cur, last, nearest.center, radius)
            IN  IF walk_abort(nxt, start, size, j + 1, radius)
                THEN insert_random(color, "fallback") /\ UNCHANGED walk
                ELSE IF nxt \notin DOMAIN grid
                THEN /\ panic' = "index out of bounds"
                     /\ pc' = "panic"
                     /\ UNCHANGED <<open_locs, grid, lookback, i, path,
                                    created, walk>>
                ELSE IF is_none(grid, nxt)
                THEN Commit(nxt) /\ UNCHANGED walk
                ELSE /\ last' = cur
                     /\ cur' = nxt
                     /\ UNCHANGED <<nearest, start, radius, open_locs, grid,
                                    lookback, i, path, created, pc, panic>>
    /\ UNCHANGED <<args, color, img, tvars>>

\* A rasterizer that swaps the two indices in put_pixel.
rasterize_transposed(g) ==
    [c \in DOMAIN g |->
        IF g[<<c[2], c[1]>>] = None THEN None
        ELSE Some(g[<<c[2], c[1]>>][1].color)]

\* ImageBuffer::new followed by put_pixel(i, j, color) for every cell that
\* is Some; a pixel never written is None here.
rasterize(g) ==
    [c \in DOMAIN g |-> IF g[c] = None THEN None ELSE Some(g[c][1].color)]

\* The loop is exhausted: the image is built from the grid.
Finish ==
    /\ pc = "loop"
    /\ ~(i < NumIterations(size))
    /\ pc' = "done"
    /\ img' = rasterize(grid)
    /\ UNCHANGED <<args, grid, lookback, open_locs, i, color, walk, j, panic,
                   path, created, tvars>>

Next == SeedIter \/ GrowthStart \/ WalkStep \/ Finish

Spec == Init /\ [][Next]_vars

\* --------------------------------------------------- a VecMap on its own
\* Duplicate-free vectors over Elems.
DupFreeVecs ==
    UNION {{v \in [1..n -> Elems] : \A a, b \in 1..n : a # b => v[a] # v[b]} :
              n \in 0..MaxElems}

\* make_image is not running.
InitIdle ==
    /\ size = 0
    /\ num_centers = 0
    /\ num_lookback = 1
    /\ start_spread = <<0, 1>>
    /\ cont_spread = <<0, 1>>
    /\ grid = [c \in Locs(0) |-> None]
    /\ lookback = <<>>
    /\ open_locs = EmptyVM
    /\ i = 0
    /\ color = <<0, 0, 0>>
    /\ nearest = NoPixel
    /\ start = <<0, 0>>
    /\ last = <<0, 0>>
    /\ cur = <<0, 0>>
    /\ radius = 0
    /\ j = 0
    /\ pc = "idle"
    /\ panic = "none"
    /\ path = "none"
    /\ created = {}
    /\ img = None

InitVM ==
    /\ InitIdle
    /\ \E v \in DupFreeVecs : vm = new_from_vec(v)
    /\ vm_out = None
    /\ vm_removed = {}

\* A call of remove_random; the index is drawn only when vec is non-empty.
VMRemoveRandom ==
    /\ pc = "idle"
    /\ \E index \in 0..Max(Len(vm.vec) - 1, 0) :
          LET r == remove_random(vm, index)
          IN  /\ vm' = r.vm
              /\ vm_out' = r.out
              /\ vm_removed' = vm_removed \cup Range(r.out)
    /\ UNCHANGED mvars

\* A call of remove with any item, member or not.
VMRemove ==
    /\ pc = "idle"
    /\ \E item \in Elems :
          LET r == remove(vm, item)
          IN  /\ vm' = r.vm
              /\ vm_out' = <<r.out, item>>
              /\ vm_removed' = vm_removed \cup (IF r.out THEN {item} ELSE {})
    /\ UNCHANGED mvars

NextVM == VMRemoveRandom \/ VMRemove

SpecVM == InitVM /\ [][NextVM]_vars

\* ------------------------------------------------ one walk from any start
\* The non-empty sets of at most k locations of an n x n grid.
RECURSIVE HoleSets(_, _)
HoleSets(n, k) ==
    IF k <= 1 THEN {{c} : c \in Locs(n)}
    ELSE LET smaller == HoleSets(n, k - 1)
         IN  smaller \cup {h \cup {c} : h \in smaller, c \in Locs(n)}

\* The state at the head of the walk loop of a growth iteration, for any
\* nearest pixel: the grid is filled except for a few holes, nearest is one
\* of the filled pixels and its centre is any value a placement can give.
InitWalk ==
    /\ size \in 2..MaxWalkSize
    /\ num_centers = 1
    /\ num_lookback = 1
    /\ start_spread = <<0, 1>>
    /\ cont_spread = <<0, 1>>
    /\ color = <<0, 0, 0>>
    /\ \E holes \in HoleSets(size, MaxHoles), nc \in (0..size) \X (0..size) :
          /\ \E nl \in Locs(size) \ holes :
                LET InHoles(c) == c \in holes
                    pix(c) == [color |-> <<0, 0, 0>>, loc |-> c,
                               center |-> IF c = nl THEN nc ELSE c]
                IN  /\ grid = [c \in Locs(size) |->
                                  IF c \in holes THEN None ELSE Some(pix(c))]
                    /\ created = {pix(c) : c \in Locs(size) \ holes}
                    /\ open_locs = new_from_vec(SelectSeq(AllLocs(size), InHoles))
                    /\ i = size * size - Cardinality(holes)
                    /\ lookback = <<pix(nl)>>
                    /\ nearest = pix(nl)
                    /\ start = nl
                    /\ last = nl
                    /\ cur = nl
                    /\ radius = dist(nl, nc)
    /\ j = 0
    /\ pc = "walk"
    /\ panic = "none"
    /\ path = "none"
    /\ img = None
    /\ vm = EmptyVM
    /\ vm_out = None
    /\ vm_removed = {}

SpecWalk == InitWalk /\ [][WalkStep]_vars

\* ================================================================ claims
InBounds(c) == c[1] \in 0..(size - 1) /\ c[2] \in 0..(size - 1)
OpenSet == Range(open_locs.vec)
AtBoundary == pc \in {"loop", "walk", "done"}

\* C1: when the generation loop has run to its end, every one of the size^2
\* grid coordinates holds exactly one Pixel and open_locs (vec and reverse
\* index) is empty.
C1_Completeness ==
    pc = "done" =>
        /\ DOMAIN grid = Locs(size)
        /\ \A c \in Locs(size) : Len(grid[c]) = 1
        /\ Cardinality(Filled) = size * size
        /\ open_locs.vec = <<>>
        /\ DOMAIN open_locs.map = {}

\* A finished run of a grid with several cells whose last placement was a
\* walk commit.
C1_Witness == pc = "done" /\ size >= 2 /\ path = "commit"

\* C2: at every iteration boundary the coordinates in open_locs and the
\* filled grid coordinates are disjoint and together make up the whole
\* size x size coordinate space.
C2_Partition ==
    AtBoundary =>
        /\ OpenSet \cap Filled = {}
        /\ OpenSet \cup Filled = Locs(size)
        /\ DOMAIN open_locs.map \cap Filled = {}
        /\ DOMAIN open_locs.map \cup Filled = Locs(size)

\* An iteration boundary right after a walk commit (keyed remove), with
\* coordinates still open.
C2_Witness ==
    pc = "loop" /\ path = "commit" /\ OpenSet # {} /\ Len(lookback) = 2

\* C3 (as claimed): every Pixel ever created has its loc and its center
\* within [0, size-1] on both axes.
C3_Bounds == \A p \in created : InBounds(p.loc) /\ InBounds(p.center)

\* C4: a filled coordinate keeps its Pixel for ever, every placement fills
\* exactly one coordinate that was empty, and no two Pixels created share
\* a loc.
C4_FilledOnce ==
    [][/\ \A c \in DOMAIN grid : grid[c] # None => grid'[c] = grid[c]
       /\ i' # i =>
             \E c \in DOMAIN grid :
                 /\ grid[c] = None
                 /\ grid'[c] # None
                 /\ \A d \in DOMAIN grid \ {c} : grid'[d] = grid[d]
       /\ \A p, q \in created' : p.loc = q.loc => p = q
       /\ Cardinality(created') = i']_vars

\* Every cell of a grid of several cells has been filled, the last one by
\* a walk commit.
C4_Witness ==
    size >= 2 /\ i = size * size /\ path = "commit" /\ Cardinality(created) = i

\* C5: after any sequence of remove_random and remove calls on a VecMap
\* built from a duplicate-free vector, the reverse index has exactly one
\* entry per element of vec, each equal to the element's position, and no
\* entry for a removed element.
C5_ReverseIndex ==
    /\ DOMAIN vm.map = Range(vm.vec)
    /\ \A k \in 1..Len(vm.vec) : vm.map[vm.vec[k]] = k - 1
    /\ Cardinality(DOMAIN vm.map) = Len(vm.vec)

\* A removal returned an element from the middle of vec and others remain.
C5_Witness ==
    /\ Len(vm_out) = 1
    /\ Len(vm.vec) >= 2
    /\ vm_out[1] \notin Range(vm.vec)
    /\ vm_out[1] < vm.vec[1]

\* C6 (as claimed): the growth phase never faults when it selects nearest;
\* an iteration with i >= num_centers that has selected nearest found
\* lookback non-empty, and the "find one" expectation never fails.
C6_NearestFound ==
    /\ panic # "find one"
    /\ pc = "walk" => lookback # <<>>

\* C7: the walk of one growth iteration ends (commit or fallback) after at
\* most max(1, 8 * radius) + 1 passes of its loop.
C7_WalkBound ==
    /\ j <= Max(1, 8 * radius) + 1
    /\ pc = "walk" => j < Max(1, 8 * radius) + 1

\* A walk that ended by a commit only after six passes or more.
C7_Witness == pc = "loop" /\ path = "commit" /\ j >= 6 /\ radius >= 1

\* C8: whenever insert_random asks for a random removal, in the seeding
\* phase or after a walk abort, open_locs is non-empty.
C8_NonEmpty ==
    /\ panic # "nonempty"
    /\ (pc = "walk" \/ (pc = "loop" /\ i < num_centers)) => open_locs.vec # <<>>

\* A fallback took the very last open coordinate.
C8_Witness ==
    path = "fallback" /\ panic = "none" /\ open_locs.vec = <<>> /\ size >= 2

\* C9: after k completed iterations exactly k cells are filled and open_locs
\* holds exactly size^2 - k coordinates.
C9_OnePerIteration ==
    AtBoundary =>
        /\ i \in 0..(size * size)
        /\ Cardinality(Filled) = i
        /\ Len(open_locs.vec) = size * size - i
        /\ Cardinality(DOMAIN open_locs.map) = size * size - i

\* Mid-run, after a seed, then a placement by the walk.
C9_Witness ==
    /\ pc = "loop"
    /\ size >= 2
    /\ i = 3
    /\ num_centers = 1
    /\ path = "commit"

\* C11: remove_random on an empty VecMap returns None and changes nothing;
\* on a non-empty one it returns an element that was a member just before
\* the call, and the membership afterwards (vec and reverse index) is the
\* previous membership minus that one element, nothing lost or duplicated.
\* A step that leaves a result of length at most 1 is a remove_random call.
C11_RemoveRandom ==
    [][Len(vm_out') <= 1 =>
          IF vm.vec = <<>>
          THEN vm_out' = None /\ vm' = vm
          ELSE /\ Len(vm_out') = 1
               /\ vm_out'[1] \in Range(vm.vec)
               /\ Range(vm'.vec) = Range(vm.vec) \ {vm_out'[1]}
               /\ Len(vm'.vec) = Len(vm.vec) - 1
               /\ DOMAIN vm'.map = DOMAIN vm.map \ {vm_out'[1]}]_vars

\* remove_random took the first of four elements: the last one moved into
\* its slot and the other two stayed.
C11_Witness ==
    /\ vm_out = Some(1)
    /\ vm.vec = <<4, 2, 3>>
    /\ vm_removed = {1}

\* C12: remove(item) returns false and leaves vec and map unchanged when
\* item is not a member (also when it was removed earlier); when item is a
\* member it returns true and the membership afterwards is the previous
\* membership minus item.  A step that leaves a result <<bool, item>> is a
\* remove call.
C12_Remove ==
    [][Len(vm_out') = 2 =>
          LET ok == vm_out'[1]
              item == vm_out'[2]
          IN  IF item \notin Range(vm.vec)
              THEN ok = FALSE /\ vm' = vm
              ELSE /\ ok = TRUE
                   /\ Range(vm'.vec) = Range(vm.vec) \ {item}
                   /\ Len(vm'.vec) = Len(vm.vec) - 1
                   /\ DOMAIN vm'.map = DOMAIN vm.map \ {item}]_vars

\* remove was called for an item removed earlier, with elements remaining.
C12_Witness ==
    /\ Len(vm_out) = 2
    /\ vm_out[1] = FALSE
    /\ vm_out[2] \in vm_removed
    /\ Len(vm.vec) >= 2

\* C13: every placement (seed, fallback, walk commit) puts the new Pixel at
\* the front of lookback, keeps the earlier ones behind it in their order
\* and truncates to num_lookback, so that lookback is the last
\* min(k, num_lookback) Pixels placed, most recent first.
C13_Recency ==
    [][i' # i =>
          /\ Cardinality(created' \ created) = 1
          /\ Len(lookback') = Min(i', num_lookback)
          /\ Len(lookback) = Min(i, num_lookback)
          /\ lookback'[1] \in created' \ created
          /\ \A k \in 2..Len(lookback') : lookback'[k] = lookback[k - 1]]_vars

\* The third placement, a walk commit, pushed the oldest Pixel out of a
\* buffer of capacity two.
C13_Witness ==
    /\ pc = "loop"
    /\ i = 3
    /\ num_lookback = 2
    /\ Len(lookback) = 2
    /\ path = "commit"
    /\ \E p \in created : p \notin Range(lookback)

\* C14: in a walk step whose selected neighbour equals start, or lies
\* outside [0, size) on an axis, or with j > 8 * radius, the iteration ends
\* with a random placement: the coordinate comes out of open_locs, the
\* center is drawn as in the seeding phase, and nothing else is placed,
\* also when the selected neighbour is unfilled.
C14_AbortFallback ==
    [][pc = "walk" =>
          LET nxt == select_next(cur, last, nearest.center, radius)
              w == (size * start_spread[1]) \div start_spread[2]
              p == lookback'[1]
          IN  (\/ nxt = start
               \/ nxt[1] < 0 \/ nxt[1] >= size
               \/ nxt[2] < 0 \/ nxt[2] >= size
               \/ j + 1 > 8 * radius) =>
                  /\ pc' = "loop"
                  /\ path' = "fallback"
                  /\ i' = i + 1
                  /\ p.loc \in OpenSet
                  /\ Range(open_locs'.vec) = OpenSet \ {p.loc}
                  /\ grid' = [grid EXCEPT ![p.loc] = Some(p)]
                  /\ p.color = color
                  /\ \A k \in 1..2 :
                        p.center[k] \in Max(p.loc[k] - w, 0)..Min(p.loc[k] + w, size - 1)]_vars

\* The walk came back to start after several steps and the iteration ended
\* with a random placement.
C14_Witness ==
    /\ pc = "loop"
    /\ path = "fallback"
    /\ j >= 4
    /\ select_next(cur, last, nearest.center, radius) = start

\* C15: when nearest.loc equals nearest.center (radius = 0) the walk aborts
\* on its first step: the placement is a random fallback out of open_locs
\* and the walk commits no neighbour of nearest.loc.
C15_DegenerateRadius ==
    [][(pc = "walk" /\ nearest.loc = nearest.center) =>
          /\ radius = 0
          /\ j = 0
          /\ j' = 1
          /\ pc' = "loop"
          /\ path' = "fallback"
          /\ lookback'[1].loc \in OpenSet
          /\ \A c \in DOMAIN grid \ {lookback'[1].loc} : grid'[c] = grid[c]]_vars

\* A fallback after one step of a walk of radius 0, whose selected
\* neighbour was in the grid and unfilled, and still is.
C15_Witness ==
    /\ pc = "loop"
    /\ path = "fallback"
    /\ j = 1
    /\ nearest.loc = nearest.center
    /\ LET n == select_next(start, start, nearest.center, 0)
       IN  n \in DOMAIN grid /\ grid[n] = None

\* The neighbour offsets in the order the claim gives them.
C16_Offsets ==
    << <<1, 1>>, <<0, 1>>, <<-1, 1>>, <<1, 0>>, <<-1, 0>>,
       <<1, -1>>, <<0, -1>>, <<-1, -1>> >>
C16_Point(k) == <<cur[1] + C16_Offsets[k][1], cur[2] + C16_Offsets[k][2]>>
C16_Allowed == {k \in 1..8 : C16_Point(k) # last}
C16_Key(k) ==
    Abs((C16_Point(k)[1] - nearest.center[1]) * (C16_Point(k)[1] - nearest.center[1])
        + (C16_Point(k)[2] - nearest.center[2]) * (C16_Point(k)[2] - nearest.center[2])
        - radius)
C16_Best ==
    {k \in C16_Allowed :
        \A m \in C16_Allowed :
            C16_Key(k) < C16_Key(m) \/ (C16_Key(k) = C16_Key(m) /\ k <= m)}

\* C16: in each walk step at least 7 Moore neighbours of cur differ from
\* last, and the neighbour the step moves to or commits is the one among
\* them that minimizes |dist - radius|, the first in the order (+1,+1),
\* (0,+1), (-1,+1), (+1,0), (-1,0), (+1,-1), (0,-1), (-1,-1) among equals.
C16_Selection ==
    [][pc = "walk" =>
          /\ Cardinality(C16_Allowed) >= 7
          /\ Cardinality(C16_Best) = 1
          /\ panic' # "Still one left"
          /\ pc' = "walk" =>
                /\ \E k \in C16_Best : cur' = C16_Point(k)
                /\ last' = cur
          /\ (pc' = "loop" /\ path' = "commit") =>
                \E k \in C16_Best : lookback'[1].loc = C16_Point(k)]_vars

\* After the second step of a walk.  In the first step another neighbour
\* of start was as good as the one taken (now last); in the second step the
\* excluded start was strictly better than the neighbour taken (now cur).
C16_Witness ==
    /\ pc = "walk"
    /\ j = 2
    /\ Abs(dist(cur, nearest.center) - radius) > 0
    /\ \E m \in Range(neighbors(start)) \ {last} :
          Abs(dist(m, nearest.center) - radius)
              = Abs(dist(last, nearest.center) - radius)

\* Sum of squared per-channel differences between the colour drawn for the
\* iteration being started and the colour of a pixel.
C17_Dist(p) ==
    (color'[1] - p.color[1]) * (color'[1] - p.color[1])
        + (color'[2] - p.color[2]) * (color'[2] - p.color[2])
        + (color'[3] - p.color[3]) * (color'[3] - p.color[3])

\* C17: the nearest selected by a growth iteration is a lookback pixel that
\* minimizes the sum of squared channel differences to the new colour, and
\* among the pixels attaining the minimum it is the one closest to the
\* front.
C17_NearestFront ==
    [][(pc = "loop" /\ pc' = "walk") =>
          \E k \in 1..Len(lookback) :
              /\ nearest' = lookback[k]
              /\ \A m \in 1..Len(lookback) :
                    C17_Dist(lookback[m]) >= C17_Dist(lookback[k])
              /\ \A m \in 1..(k - 1) :
                    C17_Dist(lookback[m]) > C17_Dist(lookback[k])]_vars

\* A growth iteration has selected nearest from two equally near pixels and
\* took the front one.
C17_Witness ==
    /\ pc = "walk"
    /\ j = 0
    /\ Len(lookback) = 2
    /\ color_dist_sq(color, lookback[1].color)
           = color_dist_sq(color, lookback[2].color)
    /\ color # lookback[1].color
    /\ nearest = lookback[1]

\* C18: with start_spread = 0 every Pixel placed by the seeding phase or by
\* a random fallback has its center equal to its loc; with cont_spread = 0
\* every Pixel committed by the walk is sampled with width 1, its center at
\* most 1 away from nearest.center on each axis.
C18_ZeroSpread ==
    [][i' # i =>
          LET p == lookback'[1]
          IN  /\ (start_spread[1] = 0 /\ path' \in {"seed", "fallback"}) =>
                    p.center = p.loc
              /\ (cont_spread[1] = 0 /\ path' = "commit") =>
                    /\ cont_width(color, nearest.color, cont_spread) = 1
                    /\ \A k \in 1..2 :
                          Abs(p.center[k] - nearest.center[k]) <= 1]_vars

\* With cont_spread = 0 the walk committed a Pixel of another colour than
\* nearest, with a center one cell from nearest.center on both axes.
C18_Witness ==
    /\ pc = "loop"
    /\ path = "commit"
    /\ cont_spread[1] = 0
    /\ color # nearest.color
    /\ lookback[1].color = color
    /\ \A k \in 1..2 : Abs(lookback[1].center[k] - nearest.center[k]) = 1

\* C19: every filled grid cell (x, y) holds a Pixel whose loc is (x, y), and
\* in the image built after the loop every pixel (x, y) has been written
\* with the colour of the Pixel committed at coordinate (x, y).
C19_Raster ==
    /\ \A c \in Filled : grid[c][1].loc = c
    /\ pc = "done" =>
          /\ DOMAIN img = Locs(size)
          /\ \A c \in Locs(size) :
                \E p \in created : p.loc = c /\ img[c] = Some(p.color)

\* A finished image whose pixels (0, 1) and (1, 0) have different colours.
C19_Witness ==
    /\ pc = "done"
    /\ size >= 2
    /\ img[<<0, 1>>] # img[<<1, 0>>]
    /\ img[<<0, 1>>] # None
    /\ img[<<1, 0>>] # None

\* C20: during a walk cur is an in-bounds filled cell, the grid is never
\* indexed out of bounds, and for the nearest of every growth iteration the
\* sampling range of each center axis, from nearest.center - width
\* (saturating at 0) to min(nearest.center + width, size), is non-empty, so
\* that the center draw of a commit never faults.
C20_SafeWalk ==
    /\ panic \notin {"empty range", "index out of bounds"}
    /\ pc = "walk" =>
          /\ cur \in Locs(size)
          /\ grid[cur] # None
          /\ LET w == cont_width(color, nearest.color, cont_spread)
             IN  \A k \in 1..2 :
                    Max(nearest.center[k] - w, 0)
                        <= Min(nearest.center[k] + w, size)

\* A walk committed a Pixel next to a nearest whose center, equal to size
\* on an axis, came from an earlier walk commit.
C20_Witness ==
    /\ pc = "loop"
    /\ path = "commit"
    /\ panic = "none"
    /\ (nearest.center[1] = size \/ nearest.center[2] = size)

====
